---- MODULE Spec2Model ----
(***************************************************************************)
(* Model of the MPPL lexical scanner, src/scan/scan3.rs.                   *)
(*                                                                         *)
(* A character is a one-character string; the three strings "U+00E9",      *)
(* "U+3042" and "U+1F600" stand for one character each, of 2, 3 and 4      *)
(* bytes in UTF-8.  A Rust String / &str is a sequence of characters.      *)
(* A u32 is a pair <<hi, lo>> of 16-bit limbs, value hi * 65536 + lo.      *)
(***************************************************************************)
EXTENDS Integers, Sequences, FiniteSets, TLC

VARIABLES source, chars, returned, cuts, token_vec, pc

vars == <<source, chars, returned, cuts, token_vec, pc>>

(***************************************************************************)
(* Characters and strings                                                  *)
(***************************************************************************)
Letters ==
  {"a", "b", "c", "d", "e", "f", "g", "h", "i", "j", "k", "l", "m", "n", "o", "p", "q", "r", "s", "t", "u", "v", "w", "x", "y", "z",
   "A", "B", "C", "D", "E", "F", "G", "H", "I", "J", "K", "L", "M", "N", "O", "P", "Q", "R", "S", "T", "U", "V", "W", "X", "Y", "Z"}

Digits == {"0", "1", "2", "3", "4", "5", "6", "7", "8", "9"}

DigitVal(c) ==
  CASE c = "0" -> 0 [] c = "1" -> 1 [] c = "2" -> 2 [] c = "3" -> 3
    [] c = "4" -> 4 [] c = "5" -> 5 [] c = "6" -> 6 [] c = "7" -> 7
    [] c = "8" -> 8 [] c = "9" -> 9

\* char::len_utf8: the number of bytes a character takes in a &str.
Utf8Len(c) ==
  CASE c = "U+00E9" -> 2
    [] c = "U+3042" -> 3
    [] c = "U+1F600" -> 4
    [] OTHER -> 1

\* str::len: the length of a string in bytes.
RECURSIVE StrLen(_)
StrLen(s) == IF s = <<>> THEN 0 ELSE Utf8Len(Head(s)) + StrLen(Tail(s))

\* String::pop: the string without its last character.
Pop(s) == IF s = <<>> THEN s ELSE SubSeq(s, 1, Len(s) - 1)

(***************************************************************************)
(* Token, TokenValue                                                       *)
(***************************************************************************)
U16 == 2 ^ 16

TokenValue_None == [tag |-> "None", int |-> <<0, 0>>, str |-> <<>>]
TokenValue_Integer(n) == [tag |-> "Integer", int |-> n, str |-> <<>>]
TokenValue_String(s) == [tag |-> "String", int |-> <<0, 0>>, str |-> s]

Token(k, s, e, v) == [kind |-> k, start |-> s, end |-> e, value |-> v]

(***************************************************************************)
(* Classification tables                                                   *)
(***************************************************************************)
SYMBOLS_LEN_1 ==
  {<<"+">>, <<"-">>, <<"*">>, <<"=">>, <<"(">>, <<")">>, <<"[">>, <<"]">>,
   <<".">>, <<",">>, <<";">>}

\* The match block of match_keyword.
keyword_match(ident) ==
  CASE ident = <<"p", "r", "o", "g", "r", "a", "m">> -> "Program"
    [] ident = <<"v", "a", "r">> -> "Var"
    [] ident = <<"a", "r", "r", "a", "y">> -> "Array"
    [] ident = <<"o", "f">> -> "Of"
    [] ident = <<"b", "e", "g", "i", "n">> -> "Begin"
    [] ident = <<"e", "n", "d">> -> "End"
    [] ident = <<"i", "f">> -> "If"
    [] ident = <<"t", "h", "e", "n">> -> "Then"
    [] ident = <<"e", "l", "s", "e">> -> "Else"
    [] ident = <<"p", "r", "o", "c", "e", "d", "u", "r", "e">> -> "Procedure"
    [] ident = <<"r", "e", "t", "u", "r", "n">> -> "Return"
    [] ident = <<"c", "a", "l", "l">> -> "Call"
    [] ident = <<"w", "h", "i", "l", "e">> -> "While"
    [] ident = <<"d", "o">> -> "DO"
    [] ident = <<"n", "o", "t">> -> "Not"
    [] ident = <<"o", "r">> -> "Or"
    [] ident = <<"d", "i", "v">> -> "Div"
    [] ident = <<"a", "n", "d">> -> "And"
    [] ident = <<"c", "h", "a", "r">> -> "Char"
    [] ident = <<"i", "n", "t", "e", "g", "e", "r">> -> "Integer"
    [] ident = <<"b", "o", "o", "l", "e", "a", "n">> -> "Boolean"
    [] ident = <<"r", "e", "a", "d">> -> "Read"
    [] ident = <<"w", "r", "i", "t", "e">> -> "Write"
    [] ident = <<"r", "e", "a", "d", "l", "n">> -> "Readln"
    [] ident = <<"w", "r", "i", "t", "e", "l", "n">> -> "Writeln"
    [] ident = <<"t", "r", "u", "e">> -> "True"
    [] ident = <<"f", "a", "l", "s", "e">> -> "False"
    [] ident = <<"b", "r", "e", "a", "k">> -> "Break"
    [] OTHER -> "Name"

\* match_keyword refusing identifiers of up to two bytes.
match_keyword_Short(ident) ==
  IF StrLen(ident) <= 2 \/ StrLen(ident) > 10 THEN "Name"
  ELSE keyword_match(ident)

match_keyword(ident) ==
  IF StrLen(ident) = 1 \/ StrLen(ident) > 10 THEN "Name"
  ELSE keyword_match(ident)

match_symbol(symbol) ==
  CASE symbol = <<"+">> -> "Plus"
    [] symbol = <<"-">> -> "Minus"
    [] symbol = <<"*">> -> "Star"
    [] symbol = <<"=">> -> "Equal"
    [] symbol = <<"<", ">">> -> "NotEq"
    [] symbol = <<"<">> -> "Less"
    [] symbol = <<"<", "=">> -> "LessEq"
    [] symbol = <<">">> -> "Great"
    [] symbol = <<">", "=">> -> "GreatEq"
    [] symbol = <<"(">> -> "LParen"
    [] symbol = <<")">> -> "RParen"
    [] symbol = <<"[">> -> "LBracket"
    [] symbol = <<"]">> -> "RBracket"
    [] symbol = <<":", "=">> -> "Assign"
    [] symbol = <<".">> -> "Dot"
    [] symbol = <<",">> -> "Comma"
    [] symbol = <<":">> -> "Colon"
    [] symbol = <<";">> -> "Semicolon"
    [] OTHER -> "Unknown"

(***************************************************************************)
(* Lexer: the cursor is the sequence cs of characters not yet consumed     *)
(* (the Peekable<Chars> iterator); peek is Head(cs), next leaves Tail(cs). *)
(***************************************************************************)
\* offset returning the number of characters still to read.
offset_Remaining(src, cs) == Len(cs)

\* Lexer::offset
offset(src, cs) == StrLen(src) - Len(cs)

\* A brace comment that nests: every inner "{" asks for a "}" of its own.
RECURSIVE brace_nested(_, _)
brace_nested(depth, cs) ==
  IF cs = <<>> THEN cs
  ELSE IF Head(cs) = "}"
       THEN IF depth = 1 THEN Tail(cs) ELSE brace_nested(depth - 1, Tail(cs))
  ELSE IF Head(cs) = "{" THEN brace_nested(depth + 1, Tail(cs))
  ELSE brace_nested(depth, Tail(cs))

comment_brace_Nested(cs) == brace_nested(1, cs)

\* Lexer::comment_brace
RECURSIVE comment_brace(_)
comment_brace(cs) ==
  IF cs = <<>> THEN cs
  ELSE IF Head(cs) = "}" THEN Tail(cs)
  ELSE comment_brace(Tail(cs))

\* slashstar_loop leaving state Star for Other on every character but "/",
\* a further "*" included.
RECURSIVE slashstar_loop_StarToOther(_, _)
slashstar_loop_StarToOther(state, cs) ==
  IF cs = <<>> THEN cs
  ELSE LET c == Head(cs) IN
    CASE state = "Slash" ->
           IF c = "*" THEN slashstar_loop_StarToOther("Star", Tail(cs))
           ELSE slashstar_loop_StarToOther("Slash", Tail(cs))
      [] state = "Star" ->
           IF c = "/" THEN Tail(cs)
           ELSE slashstar_loop_StarToOther("Other", Tail(cs))
      [] state = "Other" ->
           IF c = "*" THEN slashstar_loop_StarToOther("Star", Tail(cs))
           ELSE slashstar_loop_StarToOther("Other", Tail(cs))

\* slashstar_loop never leaving state Star for Other.
RECURSIVE slashstar_loop_StarSticky(_, _)
slashstar_loop_StarSticky(state, cs) ==
  IF cs = <<>> THEN cs
  ELSE LET c == Head(cs) IN
    CASE state = "Slash" ->
           IF c = "*" THEN slashstar_loop_StarSticky("Star", Tail(cs))
           ELSE slashstar_loop_StarSticky("Slash", Tail(cs))
      [] state = "Star" ->
           IF c = "/" THEN Tail(cs)
           ELSE slashstar_loop_StarSticky("Star", Tail(cs))
      [] state = "Other" ->
           IF c = "*" THEN slashstar_loop_StarSticky("Star", Tail(cs))
           ELSE slashstar_loop_StarSticky("Other", Tail(cs))

\* The for loop of Lexer::comment_slashstar, entered in the given state.
RECURSIVE slashstar_loop(_, _)
slashstar_loop(state, cs) ==
  IF cs = <<>> THEN cs
  ELSE LET c == Head(cs) IN
    CASE state = "Slash" ->
           IF c = "*" THEN slashstar_loop("Star", Tail(cs))
           ELSE slashstar_loop("Slash", Tail(cs))
      [] state = "Star" ->
           IF c = "/" THEN Tail(cs)
           ELSE IF c # "*" THEN slashstar_loop("Other", Tail(cs))
           ELSE slashstar_loop("Star", Tail(cs))
      [] state = "Other" ->
           IF c = "*" THEN slashstar_loop("Star", Tail(cs))
           ELSE slashstar_loop("Other", Tail(cs))

\* comment_slashstar with the machine started in state Star.
comment_slashstar_FromStar(cs) == slashstar_loop("Star", cs)

\* Lexer::comment_slashstar
comment_slashstar(cs) == slashstar_loop("Slash", cs)

\* comment without the arm of the brace comment.
comment_NoBrace(c, cs) ==
  CASE c = "/" -> comment_slashstar(cs)
    [] OTHER -> cs

\* Lexer::comment, called with the separator c already consumed.
comment(c, cs) ==
  CASE c = "{" -> comment_brace(cs)
    [] c = "/" -> comment_slashstar(cs)
    [] OTHER -> cs

\* The while loop of Lexer::name_keyword.
RECURSIVE name_loop(_, _)
name_loop(buf, cs) ==
  IF cs = <<>> THEN [buf |-> buf, chars |-> cs]
  ELSE IF Head(cs) \in Letters \cup Digits
       THEN name_loop(Append(buf, Head(cs)), Tail(cs))
       ELSE [buf |-> buf, chars |-> cs]

\* Lexer::name_keyword
name_keyword(c, cs) ==
  LET r == name_loop(<<c>>, cs)
      kind == match_keyword(r.buf)
  IN [panic |-> FALSE, kind |-> kind,
      value |-> IF kind = "Name" THEN TokenValue_String(r.buf)
                ELSE TokenValue_None,
      chars |-> r.chars]

\* u32::wrapping_mul(10): the product modulo 2^32, never an overflow.
wrapping_mul10(n) ==
  LET t == n[2] * 10
      hi == n[1] * 10 + (t \div U16)
  IN [ok |-> TRUE, val |-> <<hi % U16, t % U16>>]

\* u32::checked_mul(10) and u32::checked_add(d) on 16-bit limbs.
checked_mul10(n) ==
  LET t == n[2] * 10
      hi == n[1] * 10 + (t \div U16)
  IN [ok |-> hi < U16, val |-> <<hi % U16, t % U16>>]

checked_add(n, d) ==
  LET t == n[2] + d
      hi == n[1] + (t \div U16)
  IN [ok |-> hi < U16, val |-> <<hi % U16, t % U16>>]

\* One digit of str::parse::<u32>: result = result.checked_mul(10)? then
\* result = result.checked_add(d)?.
parse_digit(acc, d) ==
  LET m == checked_mul10(acc) IN
    IF ~m.ok THEN [ok |-> FALSE, val |-> <<0, 0>>]
    ELSE checked_add(m.val, d)

\* str::parse::<u32> on a non-empty string of decimal digits: Err on
\* overflow of the 32-bit accumulator.
RECURSIVE parse_loop(_, _)
parse_loop(acc, ds) ==
  IF ds = <<>> THEN [ok |-> TRUE, val |-> acc]
  ELSE LET a == parse_digit(acc, DigitVal(Head(ds))) IN
    IF ~a.ok THEN [ok |-> FALSE, val |-> <<0, 0>>]
    ELSE parse_loop(a.val, Tail(ds))

parse_u32(buf) == parse_loop(<<0, 0>>, buf)

\* The while loop of Lexer::unsigned_integer.
RECURSIVE integer_loop(_, _)
integer_loop(buf, cs) ==
  IF cs = <<>> THEN [buf |-> buf, chars |-> cs]
  ELSE IF Head(cs) \in Digits
       THEN integer_loop(Append(buf, Head(cs)), Tail(cs))
       ELSE [buf |-> buf, chars |-> cs]

\* Lexer::unsigned_integer; unwrap() of an Err panics.
unsigned_integer(c, cs) ==
  LET r == integer_loop(<<c>>, cs)
      p == parse_u32(r.buf)
  IN [panic |-> ~p.ok, kind |-> "UnsignedInteger",
      value |-> TokenValue_Integer(p.val), chars |-> r.chars]

\* string_loop without the buf.pop() on the second quote of a doubled quote.
RECURSIVE string_loop_NoPop(_, _, _)
string_loop_NoPop(state, buf, cs) ==
  IF cs = <<>> THEN [buf |-> buf, chars |-> cs]
  ELSE LET c == Head(cs) IN
    CASE state = "Other" ->
           string_loop_NoPop(IF c = "'" THEN "SingleQuote" ELSE "Other",
                             Append(buf, c), Tail(cs))
      [] state = "SingleQuote" ->
           IF c = "'"
           THEN string_loop_NoPop("Other", Append(buf, c), Tail(cs))
           ELSE [buf |-> buf, chars |-> cs]

\* string_loop stopping in front of a character that read_next_token takes
\* as a separator.
RECURSIVE string_loop_Separators(_, _, _)
string_loop_Separators(state, buf, cs) ==
  IF cs = <<>> THEN [buf |-> buf, chars |-> cs]
  ELSE LET c == Head(cs) IN
    CASE state = "Other" ->
           IF c \in {" ", "\t", "\n", "\r", "{", "/"}
           THEN [buf |-> buf, chars |-> cs]
           ELSE string_loop_Separators(
                  IF c = "'" THEN "SingleQuote" ELSE "Other",
                  Append(buf, c), Tail(cs))
      [] state = "SingleQuote" ->
           IF c = "'"
           THEN string_loop_Separators("Other", Append(Pop(buf), c),
                                       Tail(cs))
           ELSE [buf |-> buf, chars |-> cs]

\* The while loop of Lexer::string.
RECURSIVE string_loop(_, _, _)
string_loop(state, buf, cs) ==
  IF cs = <<>> THEN [buf |-> buf, chars |-> cs]
  ELSE LET c == Head(cs) IN
    CASE state = "Other" ->
           string_loop(IF c = "'" THEN "SingleQuote" ELSE "Other",
                       Append(buf, c), Tail(cs))
      [] state = "SingleQuote" ->
           IF c = "'"
           THEN string_loop("Other", Append(Pop(buf), c), Tail(cs))
           ELSE [buf |-> buf, chars |-> cs]

\* Lexer::string, called with the opening quote already consumed.
string(cs) ==
  LET r == string_loop("Other", <<>>, cs)
      buf == IF r.buf # <<>> /\ r.buf[Len(r.buf)] = "'"
             THEN Pop(r.buf) ELSE r.buf
  IN [panic |-> FALSE, kind |-> "String", value |-> TokenValue_String(buf),
      chars |-> r.chars]

\* symbol_loop without the test of the buffer against SYMBOLS_LEN_1.
RECURSIVE symbol_loop_NoLen1(_, _)
symbol_loop_NoLen1(buf, cs) ==
  IF cs = <<>> THEN [buf |-> buf, chars |-> cs]
  ELSE IF match_symbol(<<Head(cs)>>) = "Unknown"
       THEN [buf |-> buf, chars |-> cs]
  ELSE symbol_loop_NoLen1(Append(buf, Head(cs)), Tail(cs))

\* The while loop of Lexer::symbol.
RECURSIVE symbol_loop(_, _)
symbol_loop(buf, cs) ==
  IF cs = <<>> THEN [buf |-> buf, chars |-> cs]
  ELSE IF buf \in SYMBOLS_LEN_1 THEN [buf |-> buf, chars |-> cs]
  ELSE IF match_symbol(<<Head(cs)>>) = "Unknown"
       THEN [buf |-> buf, chars |-> cs]
  ELSE symbol_loop(Append(buf, Head(cs)), Tail(cs))

\* symbol keeping the text of the token whatever its kind.
symbol_KeepText(c, cs) ==
  LET r == symbol_loop(<<c>>, cs)
  IN [panic |-> FALSE, kind |-> match_symbol(r.buf),
      value |-> TokenValue_String(r.buf), chars |-> r.chars]

\* Lexer::symbol
symbol(c, cs) ==
  LET r == symbol_loop(<<c>>, cs)
      kind == match_symbol(r.buf)
  IN [panic |-> FALSE, kind |-> kind,
      value |-> IF kind # "Unknown" THEN TokenValue_None
                ELSE TokenValue_String(r.buf),
      chars |-> r.chars]

\* Lexer::token, called with the first character c already consumed.
token(c, cs) ==
  IF c \in Letters THEN name_keyword(c, cs)
  ELSE IF c \in Digits THEN unsigned_integer(c, cs)
  ELSE IF c = "'" THEN string(cs)
  ELSE symbol(c, cs)

Separators == {" ", "\t", "\n", "\r", "{", "/"}

\* Lexer::read_next_token from cursor cs: the token returned, the cursor
\* left behind (chars), whether the call panicked instead of returning, and
\* the cursor at which the token's first character was taken (first).
RECURSIVE read_next_token(_, _)
read_next_token(src, cs) ==
  IF cs = <<>>
  THEN [panic |-> FALSE,
        token |-> Token("Eof", offset(src, cs), offset(src, cs),
                        TokenValue_None),
        first |-> cs, chars |-> cs]
  ELSE IF Head(cs) \in Separators
  THEN read_next_token(src, comment(Head(cs), Tail(cs)))
  ELSE LET start == offset(src, cs)
           r == token(Head(cs), Tail(cs))
           end == offset(src, r.chars)
       IN [panic |-> r.panic,
           token |-> Token(r.kind, start, end, r.value),
           first |-> cs, chars |-> r.chars]

(***************************************************************************)
(* Bounds and input families                                               *)
(***************************************************************************)
MaxLen == 3
MaxIntPieces == 3
MaxSymLen == 3
MaxStrLen == 5
MaxKwPieces == 2
MaxSlashLen == 5
MaxBraceLen == 4
MaxEofReads == 2
MaxMixPieces == 3
MaxModePieces == 4

RECURSIVE Flatten(_)
Flatten(ps) == IF ps = <<>> THEN <<>> ELSE Head(ps) \o Flatten(Tail(ps))

\* Every text made of at most n pieces.
Sources(pieces, n) ==
  { Flatten(ps) : ps \in UNION { [1..k -> pieces] : k \in 0..n } }

Chars(set) == { <<c>> : c \in set }

Alphabet ==
  Chars({" ", "{", "}", "/", "*", "'", "a", "0", ":", "=",
         "U+00E9", "U+3042"})

IntPieces ==
  Chars({"0", "9", " ", "a", "U+00E9"})
    \cup {<<"4", "2", "9", "4", "9", "6", "7", "2", "9", "5">>,
          <<"4", "2", "9", "4", "9", "6", "7", "2", "9", "6">>,
          <<"9", "9", "9", "9", "9", "9", "9", "9", "9", "9", "9">>}

\* The reserved words, and texts that are none: a single letter, a digit,
\* a blank and two reserved words in another case.
KwPieces ==
  { <<"p", "r", "o", "g", "r", "a", "m">>,
    <<"v", "a", "r">>,
    <<"a", "r", "r", "a", "y">>,
    <<"o", "f">>,
    <<"b", "e", "g", "i", "n">>,
    <<"e", "n", "d">>,
    <<"i", "f">>,
    <<"t", "h", "e", "n">>,
    <<"e", "l", "s", "e">>,
    <<"p", "r", "o", "c", "e", "d", "u", "r", "e">>,
    <<"r", "e", "t", "u", "r", "n">>,
    <<"c", "a", "l", "l">>,
    <<"w", "h", "i", "l", "e">>,
    <<"d", "o">>,
    <<"n", "o", "t">>,
    <<"o", "r">>,
    <<"d", "i", "v">>,
    <<"a", "n", "d">>,
    <<"c", "h", "a", "r">>,
    <<"i", "n", "t", "e", "g", "e", "r">>,
    <<"b", "o", "o", "l", "e", "a", "n">>,
    <<"r", "e", "a", "d">>,
    <<"w", "r", "i", "t", "e">>,
    <<"r", "e", "a", "d", "l", "n">>,
    <<"w", "r", "i", "t", "e", "l", "n">>,
    <<"t", "r", "u", "e">>,
    <<"f", "a", "l", "s", "e">>,
    <<"b", "r", "e", "a", "k">>,
    <<"a">>, <<"1">>, <<" ">>, <<"I", "f">>, <<"D", "O">> }

SymAlphabet == Chars({":", "=", "<", ">", "+", ";", "a", " ", "!"})

StrAlphabet == Chars({"'", "a", " ", "{", "/"})

SlashAlphabet == Chars({" ", "/", "*", "a", "'"})

BraceAlphabet == Chars({" ", "{", "}", "a", "'", "/"})

(***************************************************************************)
(* State machine                                                           *)
(***************************************************************************)
\* Number of characters of the source already consumed at cursor cs.
Consumed(cs) == Len(source) - Len(cs)

EofCount == Cardinality({i \in DOMAIN returned : returned[i].kind = "Eof"})

\* Lexer::new on one of the given texts, no call made yet.
Start(texts) ==
  /\ source \in texts
  /\ chars = source
  /\ returned = <<>>
  /\ cuts = <<>>
  /\ token_vec = <<>>
  /\ pc = "idle"

Init == Start(Sources(Alphabet, MaxLen))

\* The bookkeeping of one read_next_token call with outcome r.
Record(r) ==
  /\ returned' = Append(returned, r.token)
  /\ cuts' = Append(cuts, [entry |-> Consumed(chars),
                           first |-> Consumed(r.first),
                           past |-> Consumed(r.chars)])

\* ReadNextToken with the cursor set back to the start of the source once
\* the end of input has been reported.
ReadNextToken_Restart ==
  /\ pc \in {"idle", "done"}
  /\ EofCount < MaxEofReads
  /\ LET r == read_next_token(source, chars) IN
       /\ chars' = IF r.token.kind = "Eof" THEN source ELSE r.chars
       /\ IF r.panic
          THEN pc' = "abort" /\ UNCHANGED <<returned, cuts>>
          ELSE pc' = pc /\ Record(r)
  /\ UNCHANGED <<source, token_vec>>

\* A single-step call of read_next_token by the parser.
ReadNextToken ==
  /\ pc \in {"idle", "done"}
  /\ EofCount < MaxEofReads
  /\ LET r == read_next_token(source, chars) IN
       /\ chars' = r.chars
       /\ IF r.panic
          THEN pc' = "abort" /\ UNCHANGED <<returned, cuts>>
          ELSE pc' = pc /\ Record(r)
  /\ UNCHANGED <<source, token_vec>>

\* analyze is called: token_vec = Vec::new().
Analyze ==
  /\ pc = "idle"
  /\ pc' = "analyze"
  /\ token_vec' = <<>>
  /\ UNCHANGED <<source, chars, returned, cuts>>

\* AnalyzeLoop with the Eof token not pushed before the break.
AnalyzeLoop_DropEof ==
  /\ pc = "analyze"
  /\ LET r == read_next_token(source, chars) IN
       /\ chars' = r.chars
       /\ IF r.panic
          THEN /\ pc' = "abort"
               /\ token_vec' = <<>>
               /\ UNCHANGED <<returned, cuts>>
          ELSE /\ token_vec' = IF r.token.kind = "Eof" THEN token_vec
                               ELSE Append(token_vec, r.token)
               /\ pc' = IF r.token.kind = "Eof" THEN "done" ELSE "analyze"
               /\ Record(r)
  /\ UNCHANGED source

\* One iteration of the loop of analyze.
AnalyzeLoop ==
  /\ pc = "analyze"
  /\ LET r == read_next_token(source, chars) IN
       /\ chars' = r.chars
       /\ IF r.panic
          THEN /\ pc' = "abort"
               /\ token_vec' = <<>>
               /\ UNCHANGED <<returned, cuts>>
          ELSE /\ token_vec' = Append(token_vec, r.token)
               /\ pc' = IF r.token.kind = "Eof" THEN "done" ELSE "analyze"
               /\ Record(r)
  /\ UNCHANGED source

Next == ReadNextToken \/ Analyze \/ AnalyzeLoop

Spec == Init /\ [][Next]_vars

InitInt == Start(Sources(IntPieces, MaxIntPieces))
SpecInt == InitInt /\ [][Next]_vars

InitSym == Start(Sources(SymAlphabet, MaxSymLen))
SpecSym == InitSym /\ [][Next]_vars

InitStr == Start(Sources(StrAlphabet, MaxStrLen))
SpecStr == InitStr /\ [][Next]_vars

InitKw == Start(Sources(KwPieces, MaxKwPieces))
SpecKw == InitKw /\ [][Next]_vars

InitSlash == Start(Sources(SlashAlphabet, MaxSlashLen))
SpecSlash == InitSlash /\ [][Next]_vars

InitBrace == Start(Sources(BraceAlphabet, MaxBraceLen))
SpecBrace == InitBrace /\ [][Next]_vars

\* Sources with a token of every payload shape: a keyword, a name, a
\* number, a string, known and unknown symbols.
MixPieces ==
  { <<"i", "f">>, <<"a">>, <<"1">>, <<"'">>, <<":">>, <<"=">>, <<"+">>,
    <<"!">>, <<" ">> }

InitMix == Start(Sources(MixPieces, MaxMixPieces))
SpecMix == InitMix /\ [][Next]_vars

\* Sources with quotes inside comments and comment openers inside strings.
ModePieces ==
  { <<"'">>, <<"{">>, <<"}">>, <<"/">>, <<"*", "/">>, <<" ">>, <<"a">> }

InitMode == Start(Sources(ModePieces, MaxModePieces))
SpecMode == InitMode /\ [][Next]_vars

(***************************************************************************)
(* Vocabulary of the properties                                            *)
(***************************************************************************)
\* The end-of-input token of the source: Eof at (len, len), no value.
EofToken == Token("Eof", StrLen(source), StrLen(source), TokenValue_None)

\* Byte offset in the source of the character after the first n characters.
ByteOffset(n) == StrLen(SubSeq(source, 1, n))

\* The character that follows the first n characters of the source
\* ("" when there is none).
CharAt(n) == IF n + 1 \in DOMAIN source THEN source[n + 1] ELSE ""

\* Number of characters of the maximal run of members of set that starts
\* right after the first n characters of the source.
RunLen(set, n) ==
  CHOOSE k \in 0..(Len(source) - n) :
    /\ \A j \in 1..k : source[n + j] \in set
    /\ (n + k = Len(source) \/ source[n + k + 1] \notin set)

RunAt(set, n) == SubSeq(source, n + 1, n + RunLen(set, n))

RECURSIVE StripZeros(_)
StripZeros(ds) ==
  IF ds # <<>> /\ Head(ds) = "0" THEN StripZeros(Tail(ds)) ELSE ds

\* For digit strings of equal length: a is greater than b as a number.
RECURSIVE DigitsGreater(_, _)
DigitsGreater(a, b) ==
  IF a = <<>> THEN FALSE
  ELSE IF DigitVal(Head(a)) # DigitVal(Head(b))
       THEN DigitVal(Head(a)) > DigitVal(Head(b))
       ELSE DigitsGreater(Tail(a), Tail(b))

U32MaxDigits == <<"4", "2", "9", "4", "9", "6", "7", "2", "9", "5">>

\* The decimal value of the digit string exceeds 4,294,967,295.
Exceeds(ds) ==
  LET d == StripZeros(ds) IN
    \/ Len(d) > Len(U32MaxDigits)
    \/ Len(d) = Len(U32MaxDigits) /\ DigitsGreater(d, U32MaxDigits)

\* No maximal run of digits of the source exceeds 4,294,967,295.
NoOverflowRun ==
  \A n \in 0..(Len(source) - 1) :
    (CharAt(n) \in Digits /\ (n = 0 \/ source[n] \notin Digits))
      => ~Exceeds(RunAt(Digits, n))

\* token_vec ends with the end-of-input token and holds no other Eof.
FullScanResult ==
  /\ token_vec # <<>>
  /\ token_vec[Len(token_vec)] = EofToken
  /\ \A i \in 1..(Len(token_vec) - 1) : token_vec[i].kind # "Eof"

(***************************************************************************)
(* C1                                                                      *)
(***************************************************************************)
\* C1 as stated: for all inputs a full scan terminates and returns a
\* sequence whose last token is Eof at (len, len) and that holds no other
\* Eof token: every iteration of the scan either consumes input and goes
\* on, or returns such a sequence.
C1_Original ==
  [][pc = "analyze" =>
       \/ pc' = "analyze" /\ Len(chars') < Len(chars)
       \/ pc' = "done" /\ FullScanResult']_vars

\* C1 amended: for all inputs a full scan terminates; it either returns a
\* sequence whose last token is Eof at (len, len) and that holds no other
\* Eof token, or it aborts without returning, which happens only on inputs
\* with a run of digits above 4,294,967,295.
C1_FullScan ==
  [][pc = "analyze" =>
       \/ pc' = "analyze" /\ Len(chars') < Len(chars)
       \/ pc' = "done" /\ FullScanResult'
       \/ pc' = "abort" /\ ~NoOverflowRun]_vars

C1_Witness ==
  /\ pc = "done"
  /\ Len(token_vec) >= 3
  /\ \E i \in DOMAIN token_vec : token_vec[i].kind = "UnsignedInteger"
  /\ StrLen(source) > Len(source)

(***************************************************************************)
(* C2                                                                      *)
(***************************************************************************)
\* C2: once read_next_token has returned an Eof token, every later call
\* returns the Eof token again, at the source length and with value None.
C2_EofForever ==
  \A i \in DOMAIN returned : \A j \in DOMAIN returned :
    (i < j /\ returned[i].kind = "Eof")
      => (returned[j] = returned[i] /\ returned[j] = EofToken)

C2_Witness ==
  \E i \in DOMAIN returned :
    /\ i > 1
    /\ i + 2 \in DOMAIN returned
    /\ returned[i - 1].kind # "Eof"
    /\ returned[i].kind = "Eof"
    /\ returned[i + 2].kind = "Eof"

(***************************************************************************)
(* C3                                                                      *)
(***************************************************************************)
\* Every token of the sequence has start <= end and ends no later than the
\* next one starts.
Ordered(toks) ==
  /\ \A i \in DOMAIN toks : toks[i].start <= toks[i].end
  /\ \A i \in 1..(Len(toks) - 1) : toks[i].end <= toks[i + 1].start

\* C3: the tokens returned by successive read_next_token calls, and the
\* tokens of a full scan, have start <= end and never overlap: each ends
\* at or before the start of the next.
C3_Ordered == Ordered(returned) /\ Ordered(token_vec)

C3_Witness ==
  /\ pc = "done"
  /\ \E i \in 1..(Len(token_vec) - 2) :
       /\ token_vec[i].start < token_vec[i].end
       /\ token_vec[i].end < token_vec[i + 1].start
       /\ token_vec[i + 1].start < token_vec[i + 1].end

(***************************************************************************)
(* C4                                                                      *)
(***************************************************************************)
\* C4: for every non-Eof token, start is the byte offset of the first
\* character consumed for it and end the byte offset just past the last
\* one, so [start, end) is exactly the token's own text.
C4_ByteSpans ==
  \A i \in DOMAIN returned :
    returned[i].kind # "Eof" =>
      /\ cuts[i].first < cuts[i].past
      /\ returned[i].start = ByteOffset(cuts[i].first)
      /\ returned[i].end = ByteOffset(cuts[i].past)
(***************************************************************************)
(* C5                                                                      *)
(***************************************************************************)
\* C5: a token that begins with ":" is the one Assign token ":=" when the
\* next character is "=", and otherwise the one-character Colon token, the
\* character after the ":" being left for a token of its own.
C5_ColonAssign ==
  \A i \in DOMAIN returned :
    CharAt(cuts[i].first) = ":" =>
      IF CharAt(cuts[i].first + 1) = "="
      THEN returned[i].kind = "Assign" /\ cuts[i].past = cuts[i].first + 2
      ELSE returned[i].kind = "Colon" /\ cuts[i].past = cuts[i].first + 1
(***************************************************************************)
(* C6                                                                      *)
(***************************************************************************)
\* The reading of the text s that follows an opening quote: a quote
\* followed by a quote is one literal quote, any other quote closes the
\* literal.  closed: a closing quote was found; text: the content read;
\* used: the number of characters read, the closing quote included.
RECURSIVE Literal(_)
Literal(s) ==
  IF s = <<>> THEN [closed |-> FALSE, text |-> <<>>, used |-> 0]
  ELSE IF Head(s) = "'" /\ Len(s) >= 2 /\ s[2] = "'"
  THEN LET r == Literal(Tail(Tail(s))) IN
         [closed |-> r.closed, text |-> <<"'">> \o r.text, used |-> r.used + 2]
  ELSE IF Head(s) = "'"
  THEN [closed |-> TRUE, text |-> <<>>, used |-> 1]
  ELSE LET r == Literal(Tail(s)) IN
         [closed |-> r.closed, text |-> <<Head(s)>> \o r.text,
          used |-> r.used + 1]

\* The text of the source after its first n characters.
After(n) == SubSeq(source, n + 1, Len(source))

\* C6: a quoted string closed by an unescaped quote is one String token
\* that runs from the opening to the closing quote and whose value is the
\* text between them with every doubled quote read as one quote.
C6_ClosedString ==
  \A i \in DOMAIN returned :
    LET lit == Literal(After(cuts[i].first + 1)) IN
      (CharAt(cuts[i].first) = "'" /\ lit.closed) =>
        /\ returned[i].kind = "String"
        /\ returned[i].value = TokenValue_String(lit.text)
        /\ cuts[i].past = cuts[i].first + 1 + lit.used

C6_Witness ==
  \E i \in DOMAIN returned :
    /\ CharAt(cuts[i].first) = "'"
    /\ Literal(After(cuts[i].first + 1)).closed
    /\ returned[i].value.str = <<"a", "'">>
(***************************************************************************)
(* C7                                                                      *)
(***************************************************************************)
DigitChar(d) == CHOOSE c \in Digits : DigitVal(c) = d

\* The decimal digits, without leading zeros, of the 32-bit value n
\* (the empty string for 0), by long division of its limbs by 10.
RECURSIVE Decimal(_)
Decimal(n) ==
  IF n = <<0, 0>> THEN <<>>
  ELSE LET t == (n[1] % 10) * U16 + n[2] IN
         Append(Decimal(<<n[1] \div 10, t \div 10>>), DigitChar(t % 10))

\* Every token that begins with a digit is the UnsignedInteger of the whole
\* run of digits, the run does not exceed 4,294,967,295 and the token's
\* value is the decimal value of the run.
IntegerTokensExact ==
  \A i \in DOMAIN returned :
    CharAt(cuts[i].first) \in Digits =>
      LET run == RunAt(Digits, cuts[i].first) IN
        /\ ~Exceeds(run)
        /\ returned[i].kind = "UnsignedInteger"
        /\ cuts[i].past = cuts[i].first + Len(run)
        /\ returned[i].value.tag = "Integer"
        /\ Decimal(returned[i].value.int) = StripZeros(run)

\* An aborted scan stopped right after a run of digits above 4,294,967,295.
AbortIsOverflow ==
  pc = "abort" =>
    \E n \in 0..(Consumed(chars) - 1) :
      /\ CharAt(n) \in Digits
      /\ n + RunLen(Digits, n) = Consumed(chars)
      /\ Exceeds(RunAt(Digits, n))

\* C7: a run of digits of value at most 4,294,967,295 yields one
\* UnsignedInteger token with exactly that value; a run above it aborts the
\* scan: no token is returned for it or after it, and no wrapped or
\* truncated value is ever returned.
C7_Integers ==
  /\ [](IntegerTokensExact /\ AbortIsOverflow)
  /\ [][(pc = "abort" \/ pc' = "abort") => returned' = returned]_vars

C7_Witness ==
  /\ pc = "abort"
  /\ returned # <<>>
  /\ returned[1].value = TokenValue_Integer(<<U16 - 1, U16 - 1>>)
(***************************************************************************)
(* C8                                                                      *)
(***************************************************************************)
\* The 28 reserved words, each with its keyword kind.
ReservedWords ==
  { <<<<"p", "r", "o", "g", "r", "a", "m">>, "Program">>,
    <<<<"v", "a", "r">>, "Var">>,
    <<<<"a", "r", "r", "a", "y">>, "Array">>,
    <<<<"o", "f">>, "Of">>,
    <<<<"b", "e", "g", "i", "n">>, "Begin">>,
    <<<<"e", "n", "d">>, "End">>,
    <<<<"i", "f">>, "If">>,
    <<<<"t", "h", "e", "n">>, "Then">>,
    <<<<"e", "l", "s", "e">>, "Else">>,
    <<<<"p", "r", "o", "c", "e", "d", "u", "r", "e">>, "Procedure">>,
    <<<<"r", "e", "t", "u", "r", "n">>, "Return">>,
    <<<<"c", "a", "l", "l">>, "Call">>,
    <<<<"w", "h", "i", "l", "e">>, "While">>,
    <<<<"d", "o">>, "DO">>,
    <<<<"n", "o", "t">>, "Not">>,
    <<<<"o", "r">>, "Or">>,
    <<<<"d", "i", "v">>, "Div">>,
    <<<<"a", "n", "d">>, "And">>,
    <<<<"c", "h", "a", "r">>, "Char">>,
    <<<<"i", "n", "t", "e", "g", "e", "r">>, "Integer">>,
    <<<<"b", "o", "o", "l", "e", "a", "n">>, "Boolean">>,
    <<<<"r", "e", "a", "d">>, "Read">>,
    <<<<"w", "r", "i", "t", "e">>, "Write">>,
    <<<<"r", "e", "a", "d", "l", "n">>, "Readln">>,
    <<<<"w", "r", "i", "t", "e", "l", "n">>, "Writeln">>,
    <<<<"t", "r", "u", "e">>, "True">>,
    <<<<"f", "a", "l", "s", "e">>, "False">>,
    <<<<"b", "r", "e", "a", "k">>, "Break">> }

\* C8: a token that begins with a letter is the whole run of letters and
\* digits; it has the keyword kind and no value when the run is exactly a
\* reserved word, and otherwise is a Name carrying the run as its value.
C8_Keywords ==
  \A i \in DOMAIN returned :
    CharAt(cuts[i].first) \in Letters =>
      LET run == RunAt(Letters \cup Digits, cuts[i].first) IN
        /\ cuts[i].past = cuts[i].first + Len(run)
        /\ IF \E w \in ReservedWords : w[1] = run
           THEN /\ <<run, returned[i].kind>> \in ReservedWords
                /\ returned[i].value = TokenValue_None
           ELSE /\ returned[i].kind = "Name"
                /\ returned[i].value = TokenValue_String(run)

C8_Witness ==
  /\ Cardinality(ReservedWords) = 28
  /\ pc = "done"
  /\ Len(token_vec) = 2
  /\ token_vec[1].kind = "Writeln"
  /\ token_vec[1].value = TokenValue_None
  /\ cuts[1].first = 1
  /\ cuts[1].past = 8
(***************************************************************************)
(* C9                                                                      *)
(***************************************************************************)
Min(S) == CHOOSE x \in S : \A y \in S : x <= y

\* For a "/" that follows the first n characters of the source: the number
\* of characters up to and including the first "*/" among the characters
\* after that "/", or the whole source when there is none.
SlashEnd(n) ==
  LET hits == { k \in (n + 2)..(Len(source) - 1) :
                  source[k] = "*" /\ source[k + 1] = "/" }
  IN IF hits = {} THEN Len(source) ELSE Min(hits) + 1

\* C9: a "/" met while looking for the next token always starts a comment
\* that ends right after the first "*/" among the characters following it,
\* or at the end of input: the scan from the "/" is the scan from the end
\* of the comment, and no token begins inside the comment.
C9_SlashComment ==
  /\ \A n \in 0..(Len(source) - 1) :
       CharAt(n) = "/" =>
         read_next_token(source, After(n))
           = read_next_token(source, After(SlashEnd(n)))
  /\ \A i \in DOMAIN returned :
       CharAt(cuts[i].entry) = "/" => cuts[i].first >= SlashEnd(cuts[i].entry)

C9_Witness ==
  \E i \in DOMAIN returned :
    /\ CharAt(cuts[i].entry) = "/"
    /\ CharAt(cuts[i].entry + 1) # "*"
    /\ cuts[i].first = SlashEnd(cuts[i].entry)
    /\ returned[i].kind = "Name"

(***************************************************************************)
(* C10                                                                     *)
(***************************************************************************)
\* The positions of the "}" characters after a "{" that follows the first n
\* characters of the source.
Closers(n) == { k \in (n + 2)..Len(source) : source[k] = "}" }

\* C10: a "{" met while looking for the next token starts a comment that
\* is discarded up to and including the first following "}", without
\* nesting: the scan from the "{" is the scan from the character right
\* after that "}", and no token begins inside the comment.
C10_BraceComment ==
  /\ \A n \in 0..(Len(source) - 1) :
       (CharAt(n) = "{" /\ Closers(n) # {}) =>
         read_next_token(source, After(n))
           = read_next_token(source, After(Min(Closers(n))))
  /\ \A i \in DOMAIN returned :
       (CharAt(cuts[i].entry) = "{" /\ Closers(cuts[i].entry) # {})
         => cuts[i].first >= Min(Closers(cuts[i].entry))

C10_Witness ==
  \E i \in DOMAIN returned :
    /\ CharAt(cuts[i].entry) = "{"
    /\ CharAt(cuts[i].entry + 1) = "{"
    /\ Closers(cuts[i].entry) # {}
    /\ cuts[i].first = Min(Closers(cuts[i].entry))
    /\ returned[i].kind = "Name"
(***************************************************************************)
(* C11                                                                     *)
(***************************************************************************)
\* What read_next_token gives when nothing but discarded text is left: the
\* end-of-input token, the cursor at the end, no panic.
OnlyEof ==
  [panic |-> FALSE, token |-> EofToken, first |-> <<>>, chars |-> <<>>]

\* No "*/" lies among the characters after the "/" that follows the first n
\* characters of the source.
SlashOpen(n) ==
  \A k \in (n + 2)..(Len(source) - 1) :
    ~(source[k] = "*" /\ source[k + 1] = "/")

\* C11: an unterminated comment or string never aborts the scan and takes
\* every remaining character: the scan from the "{" or "/" of an
\* unterminated comment gives only Eof at the source length, and an
\* unterminated string is one String token that reaches the end of input,
\* after which the next token returned is that Eof.
C11_Unterminated ==
  /\ \A n \in 0..(Len(source) - 1) :
       ((CharAt(n) = "{" /\ Closers(n) = {})
          \/ (CharAt(n) = "/" /\ SlashOpen(n))) =>
         read_next_token(source, After(n)) = OnlyEof
  /\ \A n \in 0..(Len(source) - 1) :
       (CharAt(n) = "'" /\ ~Literal(After(n + 1)).closed) =>
         LET r == read_next_token(source, After(n)) IN
           ~r.panic /\ r.token.kind = "String" /\ r.chars = <<>>
  /\ \A i \in DOMAIN returned :
       (CharAt(cuts[i].first) = "'"
          /\ ~Literal(After(cuts[i].first + 1)).closed) =>
         /\ returned[i].kind = "String"
         /\ cuts[i].past = Len(source)
         /\ (i + 1 \in DOMAIN returned => returned[i + 1] = EofToken)

C11_Witness ==
  \E i \in DOMAIN returned :
    /\ i > 1
    /\ CharAt(cuts[i].first) = "'"
    /\ ~Literal(After(cuts[i].first + 1)).closed
    /\ cuts[i].past > cuts[i].first + 1
    /\ i + 1 \in DOMAIN returned
    /\ returned[i + 1] = EofToken
(***************************************************************************)
(* C12                                                                     *)
(***************************************************************************)
KeywordKinds == { w[2] : w \in ReservedWords }

OperatorKinds ==
  { "Plus", "Minus", "Star", "Equal", "NotEq", "Less", "LessEq", "Great",
    "GreatEq", "LParen", "RParen", "LBracket", "RBracket", "Assign", "Dot",
    "Comma", "Colon", "Semicolon" }

TextKinds == { "Name", "String", "Unknown" }

\* The payload of token t has the shape its kind calls for.
PayloadOfKind(t) ==
  /\ t.kind \in TextKinds \cup {"UnsignedInteger", "Eof"}
                  \cup KeywordKinds \cup OperatorKinds
  /\ t.value.tag = "String" <=> t.kind \in TextKinds
  /\ t.value.tag = "Integer" <=> t.kind = "UnsignedInteger"
  /\ t.value.tag = "None" <=>
       t.kind \in {"Eof"} \cup KeywordKinds \cup OperatorKinds
  /\ t.value.tag = "None" => t.value = TokenValue_None
  /\ t.value.tag = "String" => t.value = TokenValue_String(t.value.str)
  /\ t.value.tag = "Integer" => t.value = TokenValue_Integer(t.value.int)

\* C12: the payload of a token is determined by its kind: a String value
\* exactly for Name, String and Unknown, an Integer value exactly for
\* UnsignedInteger, no value for Eof, every keyword and every known operator.
C12_Payload ==
  /\ \A i \in DOMAIN returned : PayloadOfKind(returned[i])
  /\ \A i \in DOMAIN token_vec : PayloadOfKind(token_vec[i])

C12_Witness ==
  /\ pc = "done"
  /\ Len(token_vec) = 4
  /\ token_vec[1].kind = "If" /\ token_vec[1].value.tag = "None"
  /\ token_vec[2].kind \in {"Unknown", "Name", "String"}
  /\ token_vec[2].value.tag = "String"
  /\ token_vec[3].kind = "UnsignedInteger"
  /\ token_vec[3].value.tag = "Integer"
  /\ token_vec[4] = EofToken
(***************************************************************************)
(* C13                                                                     *)
(***************************************************************************)
\* The lengths of the known symbols that are a prefix of the text after
\* the first n characters of the source.
KnownPrefixes(n) ==
  { k \in 1..(Len(source) - n) :
      match_symbol(SubSeq(source, n + 1, n + k)) # "Unknown" }

Max(S) == CHOOSE x \in S : \A y \in S : y <= x

\* C13: a symbol token whose first character is a known one-character
\* symbol is the longest known symbol that is a prefix of the remaining
\* text, with the kind of that symbol and no value; the characters after it
\* are left for the following tokens.
C13_MaximalMunch ==
  \A i \in DOMAIN returned :
    match_symbol(<<CharAt(cuts[i].first)>>) # "Unknown" =>
      LET k == Max(KnownPrefixes(cuts[i].first)) IN
        /\ cuts[i].past = cuts[i].first + k
        /\ returned[i].kind =
             match_symbol(SubSeq(source, cuts[i].first + 1,
                                 cuts[i].first + k))
        /\ returned[i].value = TokenValue_None
(***************************************************************************)
(* C14                                                                     *)
(***************************************************************************)
\* C14: only the closing quote is taken off the text of a string: the value
\* of a token that starts at a quote is the content of the literal, a
\* doubled quote read as one quote, whether the literal is closed or the
\* input ends inside it, so a literal quote at the end of the content stays.
C14_TrailingQuote ==
  \A i \in DOMAIN returned :
    CharAt(cuts[i].first) = "'" =>
      LET lit == Literal(After(cuts[i].first + 1)) IN
        /\ returned[i].kind = "String"
        /\ cuts[i].past = cuts[i].first + 1 + lit.used
        /\ returned[i].value = TokenValue_String(lit.text)
(***************************************************************************)
(* C15                                                                     *)
(***************************************************************************)
\* One step of a three-state table for the text after a "/": the state
\* reached from state on character c, "End" when the comment ends there.
\* From Star a further "*" keeps the state when stay holds and leads to
\* Other when it does not.
TableStep(stay, state, c) ==
  CASE state = "Slash" -> IF c = "*" THEN "Star" ELSE "Slash"
    [] state = "Star" ->
         IF c = "/" THEN "End"
         ELSE IF c = "*" /\ stay THEN "Star"
         ELSE "Other"
    [] state = "Other" -> IF c = "*" THEN "Star" ELSE "Other"

\* The number of characters of cs the table takes from the given state:
\* up to and including the character that ends the comment, or all of cs.
RECURSIVE TableRun(_, _, _)
TableRun(stay, state, cs) ==
  IF cs = <<>> THEN 0
  ELSE LET nxt == TableStep(stay, state, Head(cs)) IN
         IF nxt = "End" THEN 1 ELSE 1 + TableRun(stay, nxt, Tail(cs))

\* The number of characters comment_slashstar takes from cs.
SlashTaken(cs) == Len(cs) - Len(comment_slashstar(cs))

\* C15 as stated: comment_slashstar takes as many characters of every text
\* as the table in which every character but "/" leads from Star to Other,
\* a further "*" included.
C15_Original ==
  /\ \A n \in 0..Len(source) :
       SlashTaken(After(n)) = TableRun(FALSE, "Slash", After(n))
  /\ \A i \in DOMAIN returned :
       CharAt(cuts[i].entry) = "/" =>
         cuts[i].first >= cuts[i].entry + 1
                            + TableRun(FALSE, "Slash", After(cuts[i].entry + 1))

\* C15: comment_slashstar takes as many characters of every text as the
\* table in which, from Star, "/" ends the comment, a further "*" stays in
\* Star and any other character leads to Other; a token looked for from a
\* "/" begins no earlier than where that table ends the comment.
C15_Table ==
  /\ \A n \in 0..Len(source) :
       SlashTaken(After(n)) = TableRun(TRUE, "Slash", After(n))
  /\ \A i \in DOMAIN returned :
       CharAt(cuts[i].entry) = "/" =>
         cuts[i].first >= cuts[i].entry + 1
                            + TableRun(TRUE, "Slash", After(cuts[i].entry + 1))

C15_Witness ==
  \E i \in DOMAIN returned :
    /\ CharAt(cuts[i].entry) = "/"
    /\ CharAt(cuts[i].entry + 1) = "*"
    /\ CharAt(cuts[i].entry + 2) = "*"
    /\ CharAt(cuts[i].entry + 3) = "/"
    /\ cuts[i].first = cuts[i].entry + 4
    /\ TableRun(TRUE, "Slash", After(cuts[i].entry + 1)) = 3
    /\ returned[i].kind = "Name"
(***************************************************************************)
(* C16                                                                     *)
(***************************************************************************)
\* The characters that are a symbol only on their own.
SingleOnly == { "+", "-", "*", "=", "(", ")", "[", "]", ".", ",", ";" }

\* C16: a token whose first character is one of + - * = ( ) [ ] . , ; is
\* that one character alone, with the kind of that operator and no value,
\* whatever follows it.
C16_SingleChar ==
  /\ SYMBOLS_LEN_1 = { <<c>> : c \in SingleOnly }
  /\ \A c \in SingleOnly : match_symbol(<<c>>) \in OperatorKinds
  /\ \A i \in DOMAIN returned :
       CharAt(cuts[i].first) \in SingleOnly =>
         /\ cuts[i].past = cuts[i].first + 1
         /\ returned[i]
              = Token(match_symbol(<<CharAt(cuts[i].first)>>),
                      offset(source, After(cuts[i].first)),
                      offset(source, After(cuts[i].first + 1)),
                      TokenValue_None)

C16_Witness ==
  \E i \in DOMAIN returned :
    /\ CharAt(cuts[i].first) \in SingleOnly
    /\ match_symbol(<<CharAt(cuts[i].first + 1)>>) # "Unknown"
    /\ returned[i].kind \in {"Plus", "Equal", "Semicolon"}
    /\ i + 1 \in DOMAIN returned
    /\ cuts[i + 1].first = cuts[i].first + 1
    /\ returned[i + 1].kind \in OperatorKinds
(***************************************************************************)
(* C17                                                                     *)
(***************************************************************************)
Blanks == { " ", "\t", "\n", "\r" }

\* The number of characters of the source up to the first character, at or
\* after the first n, that is neither whitespace nor inside a comment: any
\* run of blanks, brace comments and slash comments is passed over.
RECURSIVE GapEnd(_)
GapEnd(n) ==
  IF n >= Len(source) THEN Len(source)
  ELSE CASE CharAt(n) \in Blanks -> GapEnd(n + 1)
         [] CharAt(n) = "{" ->
              IF Closers(n) = {} THEN Len(source)
              ELSE GapEnd(Min(Closers(n)))
         [] CharAt(n) = "/" -> GapEnd(SlashEnd(n))
         [] OTHER -> n

\* Every recorded call starts where the one before it stopped, passes over
\* exactly the blanks and comments in front of its token, and takes at
\* least one character for a token other than Eof.
ForwardCalls ==
  /\ \A i \in DOMAIN returned :
       /\ cuts[i].entry <= cuts[i].first
       /\ cuts[i].first <= cuts[i].past
       /\ cuts[i].first = GapEnd(cuts[i].entry)
       /\ i > 1 => cuts[i].entry = cuts[i - 1].past
       /\ IF cuts[i].first = Len(source)
          THEN returned[i] = EofToken
          ELSE /\ returned[i].kind # "Eof"
               /\ CharAt(cuts[i].first) \notin Separators
               /\ cuts[i].first < cuts[i].past
               /\ returned[i].start < returned[i].end
  /\ returned # <<>> => Consumed(chars) = cuts[Len(returned)].past

\* C17: the cursor only moves forward: no step lowers the offset, a call
\* that returns a token other than Eof takes at least one character
\* (start < end), and blanks and comments in any order and number in front
\* of a token are passed over without a token of their own.
C17_Forward ==
  /\ []ForwardCalls
  /\ [][/\ Len(chars') <= Len(chars)
        /\ offset(source, chars') >= offset(source, chars)]_vars

C17_Witness ==
  \E i \in DOMAIN returned :
    /\ returned[i].kind = "Name"
    /\ cuts[i].first >= cuts[i].entry + 3
    /\ \E k \in cuts[i].entry..(cuts[i].first - 1) : CharAt(k) \in Blanks
    /\ \E k \in cuts[i].entry..(cuts[i].first - 1) :
         CharAt(k) = "{" /\ Closers(k) # {}
(***************************************************************************)
(* C18                                                                     *)
(***************************************************************************)
\* The characters of s other than the quote, in their order.
NonQuotes(s) == SelectSeq(s, LAMBDA c : c # "'")

\* For a "{" or "/" that follows the first n characters of the source: the
\* number of characters up to and including the terminator of the comment
\* it opens, or the whole source when there is none.
CommentEnd(n) ==
  IF CharAt(n) = "/" THEN SlashEnd(n)
  ELSE IF Closers(n) = {} THEN Len(source)
  ELSE Min(Closers(n))

\* C18: the modes do not leak.  A token that starts at a quote is a String
\* that runs to the quote closing the literal (or to the end of input)
\* whatever "{", "/" and blanks lie between, and keeps every one of these
\* characters in its value; a comment that holds a quote still ends at its
\* own terminator, and no token begins inside it.
C18_Modes ==
  /\ \A i \in DOMAIN returned :
       CharAt(cuts[i].first) = "'" =>
         LET lit == Literal(After(cuts[i].first + 1)) IN
           /\ returned[i].kind = "String"
           /\ cuts[i].past = cuts[i].first + 1 + lit.used
           /\ NonQuotes(returned[i].value.str)
                = NonQuotes(SubSeq(source, cuts[i].first + 2, cuts[i].past))
  /\ \A n \in 0..(Len(source) - 1) :
       (/\ CharAt(n) \in {"{", "/"}
        /\ \E k \in (n + 2)..CommentEnd(n) : source[k] = "'") =>
         read_next_token(source, After(n))
           = read_next_token(source, After(CommentEnd(n)))
  /\ \A i \in DOMAIN returned :
       /\ cuts[i].first = GapEnd(cuts[i].entry)
       /\ CharAt(cuts[i].entry) \in {"{", "/"} =>
            cuts[i].first >= CommentEnd(cuts[i].entry)

C18_Witness ==
  \E i \in DOMAIN returned :
    /\ CharAt(cuts[i].first) = "'"
    /\ returned[i].kind = "String"
    /\ Literal(After(cuts[i].first + 1)).closed
    /\ \E k \in DOMAIN returned[i].value.str :
         returned[i].value.str[k] \in {"{", "/"}
    /\ \E k \in DOMAIN returned[i].value.str :
         returned[i].value.str[k] = " "
====
